---------------------------- MODULE Spec2Model ----------------------------
(***************************************************************************)
(* Model of the paginated scraper: value coercion (validate_element),      *)
(* record assembly (parse_scraped_data / dict_with_lists_to_list_of_dicts),*)
(* per-page extraction, the pagination walk and Scraper.main.              *)
(*                                                                         *)
(* Text is modelled as a sequence of one-character strings, so that the    *)
(* code's character indexing (temp[1][0], temp[1][-2]) and splitting are   *)
(* computed rather than assumed.                                           *)
(***************************************************************************)
EXTENDS Integers, Sequences, FiniteSets, TLC

(***************************************************************************)
(* Bounds of the model.                                                    *)
(***************************************************************************)
MaxRawLen == 3      \* raw element texts: every char sequence up to this length
MaxWords == 4       \* raw element texts: "a b c ..." with up to this many words
MaxIdx == 5         \* slice bounds n, m of 'list[n:m]' range over -MaxIdx..MaxIdx
MaxListLen == 2     \* length of a field's value list given to record assembly

(***************************************************************************)
(* Strings as character sequences, and the Python built-ins the code uses. *)
(***************************************************************************)
Chars == {"a", "b", " "}
Letters == <<"a", "b", "c", "d", "e", "f">>

S_string == <<"s", "t", "r", "i", "n", "g">>
S_list == <<"l", "i", "s", "t">>
S_listB == <<"l", "i", "s", "t", "[">>

DigitChars == <<"0", "1", "2", "3", "4", "5", "6", "7", "8", "9">>

IsDigit(ch) == \E i \in 1..10 : DigitChars[i] = ch

\* int(ch) of a one-character string that is a decimal digit
DigitVal(ch) == (CHOOSE i \in 1..10 : DigitChars[i] = ch) - 1

\* ch in s
Contains(s, ch) == \E i \in 1..Len(s) : s[i] = ch

\* sub in s, for a non-empty sub
ContainsSeq(s, sub) ==
    \E i \in 1..(Len(s) - Len(sub) + 1) : SubSeq(s, i, i + Len(sub) - 1) = sub

\* s.split(ch): the segments between occurrences of ch (empty segments kept)
RECURSIVE SplitOn(_, _)
SplitOn(s, ch) ==
    IF ~Contains(s, ch) THEN <<s>>
    ELSE LET i == CHOOSE k \in 1..Len(s) :
                     s[k] = ch /\ \A j \in 1..(k - 1) : s[j] # ch
         IN <<SubSeq(s, 1, i - 1)>> \o SplitOn(SubSeq(s, i + 1, Len(s)), ch)

\* s.split(): the maximal runs of non-whitespace characters
RECURSIVE SplitWs(_, _)
SplitWs(s, cur) ==
    IF s = <<>> THEN (IF cur = <<>> THEN <<>> ELSE <<cur>>)
    ELSE IF Head(s) = " "
         THEN (IF cur = <<>> THEN <<>> ELSE <<cur>>) \o SplitWs(Tail(s), <<>>)
         ELSE SplitWs(Tail(s), Append(cur, Head(s)))

Split(s) == SplitWs(s, <<>>)

\* the position a slice bound i denotes in a sequence of length n
PyIndex(i, n) ==
    IF i < 0 THEN (IF i + n < 0 THEN 0 ELSE i + n)
    ELSE (IF i > n THEN n ELSE i)

\* w[s:e]
PySlice(w, s, e) ==
    LET lo == PyIndex(s, Len(w))
        hi == PyIndex(e, Len(w))
    IN IF lo >= hi THEN <<>> ELSE SubSeq(w, lo + 1, hi)

\* str(n) for an integer
RECURSIVE NatToChars(_)
NatToChars(n) ==
    IF n < 10 THEN <<DigitChars[n + 1]>>
    ELSE NatToChars(n \div 10) \o <<DigitChars[(n % 10) + 1]>>

IntToChars(n) == IF n < 0 THEN <<"-">> \o NatToChars(-n) ELSE NatToChars(n)

(***************************************************************************)
(* Results of a call: a returned string, a returned list, or an exception. *)
(***************************************************************************)
RetStr(s) == [kind |-> "str", val |-> s]
RetList(ws) == [kind |-> "list", val |-> ws]
Raise(e) == [kind |-> "raise", val |-> <<e>>]
Raised(r) == r.kind = "raise"


(***************************************************************************)
(* Scraper.validate_element (scraper.py).                                  *)
(***************************************************************************)
\* slice_start = int(temp[1][0]), outside any try
Scraper_slice_start(seg) ==
    IF Len(seg) = 0 THEN Raise("IndexError")
    ELSE IF IsDigit(seg[1]) THEN [kind |-> "int", val |-> DigitVal(seg[1])]
    ELSE Raise("ValueError")

\* try: slice_end = int(temp[1][-2])  except: slice_end = int(-1)
Scraper_slice_end(seg) ==
    IF Len(seg) >= 2 /\ IsDigit(seg[Len(seg) - 1])
    THEN DigitVal(seg[Len(seg) - 1])
    ELSE -1

Scraper_validate_element(data_type, element) ==
    LET bracket == Contains(data_type, "[")
        temp == SplitOn(data_type, "[")
        dt == IF bracket THEN temp[1] ELSE data_type
        slice_start == Scraper_slice_start(temp[2])
        slice_end == Scraper_slice_end(temp[2])
    IN IF bracket /\ Raised(slice_start) THEN slice_start
       ELSE IF dt = S_string THEN RetStr(element)
       ELSE IF dt = S_list
            THEN (IF bracket
                  THEN RetList(PySlice(Split(element), slice_start.val, slice_end))
                  ELSE Raise("UnboundLocalError"))   \* slice_start was never bound
       ELSE IF Contains(dt, "[")                     \* 'list' and '[' in data_type
            THEN RetList(Split(SplitOn(element, "[")[1]))
       ELSE Raise("ValueError")

(***************************************************************************)
(* Parser.validate_element (parser.py).                                    *)
(***************************************************************************)
\* try: slice_start = int(temp[1][0])  except: slice_start = 0
Parser_slice_start(seg) ==
    IF Len(seg) >= 1 /\ IsDigit(seg[1]) THEN DigitVal(seg[1]) ELSE 0

\* try: slice_end = int(temp[1][-2])  except: slice_end = -1
Parser_slice_end(seg) ==
    IF Len(seg) >= 2 /\ IsDigit(seg[Len(seg) - 1])
    THEN DigitVal(seg[Len(seg) - 1])
    ELSE -1

Parser_validate_element(data_type, element) ==
    LET sliced == ContainsSeq(data_type, S_listB)
        temp == SplitOn(data_type, "[")
        dt == IF sliced THEN temp[1] ELSE data_type
    IN IF dt = S_string THEN RetStr(element)
       ELSE IF dt = S_list
            THEN (IF sliced
                  THEN RetList(PySlice(Split(element),
                                       Parser_slice_start(temp[2]),
                                       Parser_slice_end(temp[2])))
                  ELSE Raise("UnboundLocalError"))   \* slice_start was never bound
       ELSE IF Contains(dt, "[")                     \* 'list' and '[' in data_type
            THEN RetList(Split(SplitOn(element, "[")[1]))
       ELSE Raise("NameError")                       \* parser.py defines no logger

(***************************************************************************)
(* Inputs of the coercion check.                                           *)
(***************************************************************************)
SliceBounds == (-MaxIdx)..MaxIdx

\* a bound that is present, <<n>>, or left out, <<>>
OptBounds == {<<>>} \cup {<<n>> : n \in SliceBounds}

BoundText(b) == IF b = <<>> THEN <<>> ELSE IntToChars(b[1])

\* the descriptor 'list[n:m]'
FmtSlice(n, m) == S_listB \o BoundText(n) \o <<":">> \o BoundText(m) \o <<"]">>

\* descriptors the documentation accepts: 'string', 'list', 'list[n:m]'
LoadedTypes == {S_string, S_list} \cup {FmtSlice(<<n>>, <<m>>) : n, m \in SliceBounds}

\* descriptors 'list[x:2]' and 'list[1:x]': a bound that is no integer
UnparsableStart == S_listB \o <<"x", ":", "2", "]">>
UnparsableEnd == S_listB \o <<"1", ":", "x", "]">>

OtherTypes ==
    {FmtSlice(n, m) : n, m \in OptBounds}
        \cup {<<"i", "n", "t">>, <<"s", "t", "r", "[", "0", "]">>, S_listB}
        \cup {UnparsableStart, UnparsableEnd}

RECURSIVE JoinWords(_)
JoinWords(n) ==
    IF n = 0 THEN <<>>
    ELSE IF n = 1 THEN <<Letters[1]>>
    ELSE JoinWords(n - 1) \o <<" ", Letters[n]>>

RawTexts ==
    UNION {[1..n -> Chars] : n \in 0..MaxRawLen} \cup {JoinWords(n) : n \in 0..MaxWords}

NoResult == [kind |-> "none", val |-> <<>>]

(***************************************************************************)
(* Record assembly.  A Python dict of lists is an insertion-ordered        *)
(* sequence of items [key, values] with distinct keys; a record (a dict of *)
(* single values, compared regardless of order) is a function.             *)
(***************************************************************************)
\* mutant: result[i] = {key: element}, dropping the fields already there
UpdateRecord_Replace(rec, key, element) == (key :> element)

\* result[i].update({key: element})
UpdateRecord(rec, key, element) == (key :> element) @@ rec

\* mutant: every value appends a new record, the test i < len(result) is lost
RECURSIVE AddValues_AlwaysAppend(_, _, _, _)
AddValues_AlwaysAppend(result, key, values, i) ==
    IF i > Len(values) THEN result
    ELSE AddValues_AlwaysAppend(Append(result, key :> values[i]), key, values, i + 1)

\* for i, element in enumerate(values): update result[i], or append a new record
RECURSIVE AddValues(_, _, _, _)
AddValues(result, key, values, i) ==
    IF i > Len(values) THEN result
    ELSE AddValues(IF i <= Len(result)
                   THEN [result EXCEPT ![i] = UpdateRecord(@, key, values[i])]
                   ELSE Append(result, key :> values[i]),
                   key, values, i + 1)

\* for key, values in data.items(): ...
RECURSIVE AddItems(_, _, _)
AddItems(result, data, k) ==
    IF k > Len(data) THEN result
    ELSE AddItems(AddValues(result, data[k].key, data[k].values, 1), data, k + 1)

\* Scraper.parse_scraped_data
parse_scraped_data(scraped_data) == AddItems(<<>>, scraped_data, 1)

\* Parser.dict_with_lists_to_list_of_dicts
dict_with_lists_to_list_of_dicts(data) == AddItems(<<>>, data, 1)

\* the values of field k across the records that carry it, in record order
RECURSIVE ColumnOf(_, _)
ColumnOf(recs, k) ==
    IF recs = <<>> THEN <<>>
    ELSE (IF k \in DOMAIN Head(recs) THEN <<Head(recs)[k]>> ELSE <<>>)
             \o ColumnOf(Tail(recs), k)

\* toColumns: the inverse used by the round-trip property
toColumns(recs) ==
    [k \in UNION {DOMAIN recs[i] : i \in 1..Len(recs)} |-> ColumnOf(recs, k)]

\* a dict of lists read as a mapping key -> list
DictKeys(d) == {d[i].key : i \in 1..Len(d)}
DictGet(d, k) == d[CHOOSE i \in 1..Len(d) : d[i].key = k].values
DictAsFun(d) == [k \in DictKeys(d) |-> DictGet(d, k)]

(***************************************************************************)
(* Inputs of the record-assembly check.                                    *)
(***************************************************************************)
FieldNames == {"name", "age"}
Vals == {"Alice", "Bob", "30", "25"}

ValueLists == UNION {[1..n -> Vals] : n \in 0..MaxListLen}

KeyOrders ==
    {<<>>} \cup {<<k>> : k \in FieldNames}
        \cup {ks \in FieldNames \X FieldNames : ks[1] # ks[2]}

DictsOfLists ==
    UNION {{[i \in 1..Len(ks) |-> [key |-> ks[i], values |-> f[i]]] :
               f \in [1..Len(ks) -> ValueLists]} : ks \in KeyOrders}

(***************************************************************************)
(* State.                                                                  *)
(***************************************************************************)
VARIABLES
    \* one call of validate_element
    data_type, element, coerced, cpc,
    \* one call of record assembly
    scraped_data, records, columns, rpc,
    \* a run of Scraper.main
    mapping,            \* self.mapping: [get: fields, paginate: key present]
    proxy,              \* self.proxy is set
    min_wait_time,      \* self.min_wait_time, in thousandths of a second
    max_wait_time,      \* self.max_wait_time, in thousandths of a second
    pc,                 \* position of main
    status,             \* how main ended: "running", "ok", "raised"
    wstate,             \* position of the generator scrape_data_from_all_pages
    walk_error,         \* the exception the generator raised, and where
    n,                  \* the generator's page counter
    content,            \* what the page driver delivered for the last extraction
    yielded,            \* the per-page results yielded so far
    result,             \* main's accumulated records
    page_number,        \* main's page counter
    written,            \* the output file has been written
    output,             \* the content of the output file
    trace               \* the page-driver and file operations performed, in order

coerceVars == <<data_type, element, coerced, cpc>>
recordVars == <<scraped_data, records, columns, rpc>>
runVars == <<mapping, proxy, min_wait_time, max_wait_time, pc, status, wstate,
             walk_error, n, content, yielded, result, page_number, written,
             output, trace>>
vars == <<coerceVars, recordVars, runVars>>

(***************************************************************************)
(* Scraper.scrape_data_from_page.                                          *)
(* The page driver's answer for one field: wait_for_selector times out, or *)
(* it returns and query_selector_all gives the inner texts of the matches. *)
(***************************************************************************)
\* values = [self.validate_element(element_type, e.inner_text()) for e in elements]
RECURSIVE ValidateAll(_, _, _)
ValidateAll(element_type, texts, acc) ==
    IF texts = <<>> THEN [kind |-> "ok", val |-> acc]
    ELSE LET v == Scraper_validate_element(element_type, Head(texts))
         IN IF Raised(v) THEN v
            ELSE ValidateAll(element_type, Tail(texts), Append(acc, v))

\* the loop over self.mapping['get'], from item i on
RECURSIVE ScrapeFields(_, _, _, _)
ScrapeFields(get, page, i, scraped) ==
    IF i > Len(get) THEN [kind |-> "ok", data |-> scraped, waits |-> Len(get)]
    ELSE IF page[i].wait = "timeout"
         THEN [kind |-> "raise", data |-> <<"TimeoutError">>, waits |-> i]
    ELSE IF page[i].texts = <<>>
         THEN ScrapeFields(get, page, i + 1, scraped)
    ELSE LET values == ValidateAll(get[i].type, page[i].texts, <<>>)
         IN IF Raised(values)
            THEN [kind |-> "raise", data |-> values.val, waits |-> i]
            ELSE ScrapeFields(get, page, i + 1,
                     Append(scraped, [key |-> get[i].name, values |-> values.val]))

scrape_data_from_page(get, page) == ScrapeFields(get, page, 1, <<>>)

(***************************************************************************)
(* Scraper.delayed_click: the waiting time.                                *)
(***************************************************************************)
\* round(x, 2) of a time in thousandths: to the nearest hundredth, ties to even
Round2(u) ==
    LET r == u % 10
        down == u - r
    IN IF r < 5 THEN down
       ELSE IF r > 5 THEN down + 10
       ELSE IF (down \div 10) % 2 = 0 THEN down ELSE down + 10

\* random.uniform(a, b): any value between the two bounds
Uniform(a, b) == IF a <= b THEN a..b ELSE b..a

(***************************************************************************)
(* Inputs of a run.                                                        *)
(***************************************************************************)
MaxPages == 3       \* the next-page control is visible at most MaxPages - 1 times

T_ab == <<"a", " ", "b">>
T_c == <<"c">>

\* what query_selector_all can deliver for a selector
ElementTexts == {<<>>, <<T_ab, T_c>>}

QueryOutcomes ==
    {[wait |-> "timeout", texts |-> <<>>]}
        \cup {[wait |-> "ok", texts |-> t] : t \in ElementTexts}

FieldOrder == <<"name", "age">>
WalkTypes == {S_string, S_list, FmtSlice(<<0>>, <<2>>)}

\* the 'get' lists of the mapping documents considered
GetLists ==
    UNION {{[i \in 1..k |-> [name |-> FieldOrder[i], type |-> ts[i]]] :
               ts \in [1..k -> WalkTypes]} : k \in 0..Len(FieldOrder)}

Mappings == [get : GetLists, paginate : BOOLEAN]

\* configured waiting times, in thousandths of a second
WaitTimes == {1000, 1004}

NoError == [at |-> "", exc |-> ""]
Ev(op, arg) == [op |-> op, arg |-> arg]
B2N(b) == IF b THEN 1 ELSE 0

(***************************************************************************)
(* A run of Scraper.main.                                                  *)
(***************************************************************************)
CoerceIdle ==
    /\ data_type = <<>>
    /\ element = <<>>
    /\ coerced = NoResult
    /\ cpc = "off"

RecordIdle ==
    /\ scraped_data = <<>>
    /\ records = <<>>
    /\ columns = <<>>
    /\ rpc = "off"

RunIdle ==
    /\ mapping = [get |-> <<>>, paginate |-> TRUE]
    /\ proxy = FALSE
    /\ min_wait_time = 0
    /\ max_wait_time = 0
    /\ pc = "off"
    /\ status = "running"
    /\ wstate = "NotStarted"
    /\ walk_error = NoError
    /\ n = 0
    /\ content = <<>>
    /\ yielded = <<>>
    /\ result = <<>>
    /\ page_number = 0
    /\ written = FALSE
    /\ output = <<>>
    /\ trace = <<>>

\* after Scraper.__init__: the mapping document and the configuration are loaded
Init ==
    /\ CoerceIdle
    /\ RecordIdle
    /\ mapping \in Mappings
    /\ proxy \in BOOLEAN
    /\ min_wait_time \in WaitTimes
    /\ max_wait_time \in WaitTimes
    /\ min_wait_time <= max_wait_time
    /\ pc = "navigate"
    /\ status = "running"
    /\ wstate = "NotStarted"
    /\ walk_error = NoError
    /\ n = 0
    /\ content = <<>>
    /\ yielded = <<>>
    /\ result = <<>>
    /\ page_number = 0
    /\ written = FALSE
    /\ output = <<>>
    /\ trace = <<>>

config == <<mapping, proxy, min_wait_time, max_wait_time>>

\* main: initialize_browser_instance(playwright, self.proxy); page.goto(url)
Main_Navigate ==
    /\ pc = "navigate"
    /\ \E ok \in BOOLEAN :
          /\ trace' = trace \o <<Ev("launch", B2N(proxy)), Ev("goto", B2N(ok))>>
                            \o (IF ok THEN <<>> ELSE <<Ev("close", 0)>>)
          /\ pc' = IF ok THEN "scrape" ELSE "retry"
    /\ UNCHANGED <<config, status, wstate, walk_error, n, content, yielded, result,
                   page_number, written, output, coerceVars, recordVars>>

\* mutant: the second browser is launched with the proxy again
Main_RetryNavigate_KeepProxy ==
    /\ pc = "retry"
    /\ \E ok \in BOOLEAN :
          /\ trace' = trace \o <<Ev("launch", B2N(proxy)), Ev("goto", B2N(ok))>>
          /\ pc' = IF ok THEN "scrape" ELSE "done"
          /\ status' = IF ok THEN status ELSE "raised"
    /\ UNCHANGED <<config, wstate, walk_error, n, content, yielded, result,
                   page_number, written, output, coerceVars, recordVars>>

\* main: the except branch of the first goto: a second browser, without proxy
Main_RetryNavigate ==
    /\ pc = "retry"
    /\ \E ok \in BOOLEAN :
          /\ trace' = trace \o <<Ev("launch", 0), Ev("goto", B2N(ok))>>
          /\ pc' = IF ok THEN "scrape" ELSE "done"
          /\ status' = IF ok THEN status ELSE "raised"
    /\ UNCHANGED <<config, wstate, walk_error, n, content, yielded, result,
                   page_number, written, output, coerceVars, recordVars>>

\* mutant: the next-page selector is not looked up before the first extraction
Walk_Start_NoLookup ==
    /\ pc = "scrape"
    /\ wstate = "NotStarted"
    /\ trace' = Append(trace, Ev("locator", 0))
    /\ n' = 1
    /\ wstate' = "Extracting"
    /\ UNCHANGED <<config, pc, status, walk_error, content, yielded, result,
                   page_number, written, output, coerceVars, recordVars>>

\* scrape_data_from_all_pages, first next(): the locator of the next-page button
Walk_Start ==
    /\ pc = "scrape"
    /\ wstate = "NotStarted"
    /\ IF mapping.paginate
       THEN /\ trace' = Append(trace, Ev("locator", 0))
            /\ n' = 1
            /\ wstate' = "Extracting"
            /\ UNCHANGED walk_error
       ELSE /\ wstate' = "Raised"
            /\ walk_error' = [at |-> "locator", exc |-> "KeyError"]
            /\ UNCHANGED <<trace, n>>
    /\ UNCHANGED <<config, pc, status, content, yielded, result, page_number,
                   written, output, coerceVars, recordVars>>

\* scrape_data_from_all_pages: scrape_data_from_page(page), then yield
Walk_Extract ==
    /\ pc = "scrape"
    /\ wstate = "Extracting"
    /\ \E page \in [1..Len(mapping.get) -> QueryOutcomes] :
          LET r == scrape_data_from_page(mapping.get, page)
              waits == [i \in 1..r.waits |-> Ev("wait_for_selector", i)]
          IN /\ content' = [i \in 1..r.waits |-> page[i]]
             /\ IF r.kind = "ok"
                THEN /\ yielded' = Append(yielded, r.data)
                     /\ trace' = trace \o waits \o <<Ev("yield", Len(yielded) + 1)>>
                     /\ wstate' = "Yielded"
                     /\ UNCHANGED walk_error
                ELSE /\ trace' = trace \o waits
                     /\ wstate' = "Raised"
                     /\ walk_error' = [at |-> "extract", exc |-> r.data[1]]
                     /\ UNCHANGED yielded
    /\ UNCHANGED <<config, pc, status, n, result, page_number, written, output,
                   coerceVars, recordVars>>

\* main: the body of the for loop over the yielded per-page results
Main_Body ==
    /\ pc = "scrape"
    /\ wstate = "Yielded"
    /\ page_number' = page_number + 1
    /\ result' = result \o parse_scraped_data(yielded[Len(yielded)])
    /\ wstate' = "CheckingNext"
    /\ UNCHANGED <<config, pc, status, walk_error, n, content, yielded, written,
                   output, trace, coerceVars, recordVars>>

\* scrape_data_from_all_pages: while next_page_button.is_visible()
Walk_CheckNext ==
    /\ pc = "scrape"
    /\ wstate = "CheckingNext"
    /\ \E visible \in BOOLEAN :
          /\ visible => n < MaxPages
          /\ trace' = trace \o (IF n > 1 THEN <<Ev("locator", 0)>> ELSE <<>>)
                            \o <<Ev("check_visible", B2N(visible))>>
          /\ n' = IF visible THEN n + 1 ELSE n
          /\ wstate' = IF visible THEN "Advancing" ELSE "Done"
    /\ UNCHANGED <<config, pc, status, walk_error, content, yielded, result,
                   page_number, written, output, coerceVars, recordVars>>

\* mutant: a button that is no longer visible is skipped without raising
Walk_DelayedClick_Silent ==
    /\ pc = "scrape"
    /\ wstate = "Advancing"
    /\ \E visible \in BOOLEAN :
          IF visible
          THEN \E u \in Uniform(min_wait_time, max_wait_time), clicked \in BOOLEAN :
                  LET wait_time == Round2(u)
                  IN /\ trace' = trace \o <<Ev("is_visible", 1),
                                           Ev("sleep", wait_time),
                                           Ev("click", B2N(clicked))>>
                     /\ wstate' = IF clicked THEN "Extracting" ELSE "Raised"
                     /\ walk_error' = IF clicked THEN walk_error
                                      ELSE [at |-> "click", exc |-> "PlaywrightError"]
          ELSE /\ trace' = Append(trace, Ev("is_visible", 0))
               /\ wstate' = "Extracting"
               /\ UNCHANGED walk_error
    /\ UNCHANGED <<config, pc, status, n, content, yielded, result, page_number,
                   written, output, coerceVars, recordVars>>

\* Scraper.delayed_click(next_page_button)
Walk_DelayedClick ==
    /\ pc = "scrape"
    /\ wstate = "Advancing"
    /\ \E visible \in BOOLEAN :
          IF visible
          THEN \E u \in Uniform(min_wait_time, max_wait_time), clicked \in BOOLEAN :
                  LET wait_time == Round2(u)
                  IN /\ trace' = trace \o <<Ev("is_visible", 1),
                                           Ev("sleep", wait_time),
                                           Ev("click", B2N(clicked))>>
                     /\ wstate' = IF clicked THEN "Extracting" ELSE "Raised"
                     /\ walk_error' = IF clicked THEN walk_error
                                      ELSE [at |-> "click", exc |-> "PlaywrightError"]
          ELSE /\ trace' = Append(trace, Ev("is_visible", 0))
               /\ wstate' = "Raised"
               /\ walk_error' = [at |-> "delayed_click", exc |-> "TimeoutError"]
    /\ UNCHANGED <<config, pc, status, n, content, yielded, result, page_number,
                   written, output, coerceVars, recordVars>>

\* mutant: the except branch does not re-raise, main goes on to write the file
Main_HandleError_Swallow ==
    /\ pc = "scrape"
    /\ wstate = "Raised"
    /\ \E shot \in BOOLEAN :
          trace' = trace \o <<Ev("screenshot", B2N(shot)), Ev("close", 0),
                              Ev("write", Len(result))>>
    /\ written' = TRUE
    /\ output' = result
    /\ pc' = "done"
    /\ status' = "ok"
    /\ UNCHANGED <<config, wstate, walk_error, n, content, yielded, result,
                   page_number, coerceVars, recordVars>>

\* main: except Exception: log, page.screenshot(...), raise
Main_HandleError ==
    /\ pc = "scrape"
    /\ wstate = "Raised"
    /\ \E shot \in BOOLEAN :
          trace' = Append(trace, Ev("screenshot", B2N(shot)))
    /\ pc' = "done"
    /\ status' = "raised"
    /\ UNCHANGED <<config, wstate, walk_error, n, content, yielded, result,
                   page_number, written, output, coerceVars, recordVars>>

\* main: the loop ended: browser.close(), then json.dump(result, file)
Main_Finish ==
    /\ pc = "scrape"
    /\ wstate = "Done"
    /\ trace' = trace \o <<Ev("close", 0), Ev("write", Len(result))>>
    /\ written' = TRUE
    /\ output' = result
    /\ pc' = "done"
    /\ status' = "ok"
    /\ UNCHANGED <<config, wstate, walk_error, n, content, yielded, result,
                   page_number, coerceVars, recordVars>>

Next ==
    \/ Main_Navigate
    \/ Main_RetryNavigate
    \/ Walk_Start
    \/ Walk_Extract
    \/ Main_Body
    \/ Walk_CheckNext
    \/ Walk_DelayedClick
    \/ Main_HandleError
    \/ Main_Finish

Spec == Init /\ [][Next]_vars

\* main is one sequential thread and every wait of the page driver is bounded
\* by a timeout: a step that can be taken is taken
FairSpec == Spec /\ WF_vars(Next)

(***************************************************************************)
(* One call of validate_element on inputs drawn from the bounded sets.     *)
(***************************************************************************)
CoerceInit ==
    /\ RecordIdle
    /\ RunIdle
    /\ data_type \in LoadedTypes \cup OtherTypes
    /\ element \in RawTexts
    /\ coerced = NoResult
    /\ cpc = "call"

Call_Scraper_validate_element ==
    /\ cpc = "call"
    /\ coerced' = Scraper_validate_element(data_type, element)
    /\ cpc' = "scraper"
    /\ UNCHANGED <<data_type, element, recordVars, runVars>>

Call_Parser_validate_element ==
    /\ cpc = "call"
    /\ coerced' = Parser_validate_element(data_type, element)
    /\ cpc' = "parser"
    /\ UNCHANGED <<data_type, element, recordVars, runVars>>

CoerceNext ==
    \/ Call_Scraper_validate_element
    \/ Call_Parser_validate_element

SpecCoerce == CoerceInit /\ [][CoerceNext]_vars

(***************************************************************************)
(* One call of record assembly, followed by the inverse toColumns.         *)
(***************************************************************************)
RecordInit ==
    /\ CoerceIdle
    /\ RunIdle
    /\ scraped_data \in DictsOfLists
    /\ records = <<>>
    /\ columns = <<>>
    /\ rpc = "call"

Call_parse_scraped_data ==
    /\ rpc = "call"
    /\ records' = parse_scraped_data(scraped_data)
    /\ rpc' = "scraper"
    /\ UNCHANGED <<scraped_data, columns, coerceVars, runVars>>

Call_dict_with_lists_to_list_of_dicts ==
    /\ rpc = "call"
    /\ records' = dict_with_lists_to_list_of_dicts(scraped_data)
    /\ rpc' = "parser"
    /\ UNCHANGED <<scraped_data, columns, coerceVars, runVars>>

Call_toColumns ==
    /\ rpc \in {"scraper", "parser"}
    /\ columns' = toColumns(records)
    /\ rpc' = "columns"
    /\ UNCHANGED <<scraped_data, records, coerceVars, runVars>>

RecordNext ==
    \/ Call_parse_scraped_data
    \/ Call_dict_with_lists_to_list_of_dicts
    \/ Call_toColumns

SpecRecords == RecordInit /\ [][RecordNext]_vars

(***************************************************************************)
(* Properties.                                                             *)
(***************************************************************************)
LastEv(t) == t[Len(t)]
Called == cpc \in {"scraper", "parser"}
Assembled == rpc \in {"scraper", "parser"}

\* the positions of the trace holding operation op
Positions(op) == {i \in 1..Len(trace) : trace[i].op = op}

\* every type of the mapping coerces the page texts without raising
CoercibleTypes == {S_string, FmtSlice(<<0>>, <<2>>)}
WellFormed ==
    /\ mapping.paginate
    /\ \A i \in 1..Len(mapping.get) : mapping.get[i].type \in CoercibleTypes

\* C3: for every word sequence w = split(raw) and every descriptor
\* 'list[start:end]', negative and out-of-range bounds included,
\* validate_element returns exactly w[start:end] under Python slicing.
C3_SliceCoercion ==
    \A start, end \in SliceBounds :
        (Called /\ data_type = FmtSlice(<<start>>, <<end>>))
            => coerced = RetList(PySlice(Split(element), start, end))

\* C4: validate_element never raises for a descriptor a loaded mapping can
\* carry ('string', 'list', 'list[n:m]'); 'string' returns the raw text
\* unchanged and 'list' returns the full whitespace-split word sequence.
C4_TypeTotality ==
    (Called /\ data_type \in LoadedTypes)
        => /\ ~Raised(coerced)
           /\ data_type = S_string => coerced = RetStr(element)
           /\ data_type = S_list => coerced = RetList(Split(element))

\* the length of the longest list of a mapping key -> list
MaxLen(x) ==
    IF DOMAIN x = {} THEN 0
    ELSE CHOOSE m \in {Len(x[k]) : k \in DOMAIN x} : \A k \in DOMAIN x : Len(x[k]) <= m

\* C5: record assembly returns as many records as the longest list has
\* values; record i holds field k, with value x[k][i], exactly when
\* i < len(x[k]), and holds no other field.
C5_PositionalZip ==
    Assembled =>
        LET x == DictAsFun(scraped_data)
        IN /\ Len(records) = MaxLen(x)
           /\ \A i \in 1..Len(records) :
                 /\ DOMAIN records[i] = {k \in DOMAIN x : i <= Len(x[k])}
                 /\ \A k \in DOMAIN records[i] : records[i][k] = x[k][i]

\* C5 witness: two fields with lists of different lengths have been assembled
C5_Witness ==
    /\ Assembled
    /\ Len(scraped_data) = 2
    /\ Len(scraped_data[1].values) = 1
    /\ Len(scraped_data[2].values) = 2
    /\ Len(records) = 2
    /\ DOMAIN records[2] = {scraped_data[2].key}

EqualLengths(d) ==
    \A i, j \in 1..Len(d) : Len(d[i].values) = Len(d[j].values)

NoEmptyList(d) == \A i \in 1..Len(d) : Len(d[i].values) >= 1

\* C6 as stated: for every mapping x whose lists all have the same length L,
\* toColumns(toRecords(x)) = x.
C6_RoundTrip ==
    (rpc = "columns" /\ EqualLengths(scraped_data))
        => columns = DictAsFun(scraped_data)

\* C6 amended: for every mapping x whose lists all have the same length
\* L >= 1 (or that has no field at all), toColumns(toRecords(x)) = x.
C6_RoundTripNonEmpty ==
    (rpc = "columns" /\ EqualLengths(scraped_data) /\ NoEmptyList(scraped_data))
        => columns = DictAsFun(scraped_data)

\* C6 witness: two fields of two values each have made the round trip
C6_Witness ==
    /\ rpc = "columns"
    /\ Len(scraped_data) = 2
    /\ Len(scraped_data[1].values) = 2
    /\ Len(scraped_data[2].values) = 2
    /\ Len(records) = 2
    /\ columns = DictAsFun(scraped_data)

Terminated == wstate \in {"Done", "Raised"}

\* the successful clicks on the next-page control
Advances == {i \in Positions("click") : trace[i].arg = 1}

\* exactly one click lies between consecutive yielded results
OneClickBetweenYields ==
    \A i, j \in Positions("yield") :
        (i < j /\ ~\E k \in Positions("yield") : i < k /\ k < j)
            => Cardinality({c \in Positions("click") : i < c /\ c < j}) = 1

\* C1: with a well-formed mapping and for any page driver behaviour, the
\* walk yields at least one per-page result, even when the next-page control
\* is never visible; when exactly N-1 advances succeed before the control
\* becomes absent it yields exactly N results and stops in Done, with
\* exactly one click between consecutive yielded results.
C1_WalkYields ==
    (WellFormed /\ Terminated)
        => /\ Len(yielded) >= 1
           /\ wstate = "Done" => Len(yielded) = Cardinality(Advances) + 1
           /\ OneClickBetweenYields

\* The part of C1 the code keeps: a walk that ends in Done has yielded one
\* result more than it clicked, with one click between consecutive results.
WalkDoneCount ==
    wstate = "Done"
        => /\ Len(yielded) = Cardinality(Advances) + 1
           /\ Len(yielded) >= 1
           /\ OneClickBetweenYields

\* C2: if the next-page control was visible at the walker's check but is not
\* interactable at activation time (hidden again when delayed_click looks,
\* or click() fails), the walk raises to the caller instead of stopping
\* normally, and the results yielded before the failure are unchanged.
C2_InteractionFailureRaises ==
    [][(/\ wstate = "Advancing"
        /\ LastEv(trace).op = "check_visible"
        /\ LastEv(trace).arg = 1
        /\ \/ LastEv(trace') = Ev("is_visible", 0)
           \/ LastEv(trace') = Ev("click", 0))
          => /\ wstate' = "Raised"
             /\ walk_error' # NoError
             /\ yielded' = yielded
             /\ result' = result]_vars

\* C2 witness: after two yielded pages the control, visible at the loop
\* check, was hidden when delayed_click looked, and the walk has raised
C2_Witness ==
    /\ wstate = "Raised"
    /\ walk_error.at = "delayed_click"
    /\ Len(yielded) = 2
    /\ LastEv(trace) = Ev("is_visible", 0)
    /\ trace[Len(trace) - 1] = Ev("check_visible", 1)

PageIO == {"launch", "goto", "locator", "wait_for_selector", "check_visible",
           "is_visible", "click", "screenshot"}

C8_MissingSelectorIsEmpty ==
    \A i \in 1..Len(content) :
        content[i].wait = "timeout"
            => /\ wstate # "Raised"
               /\ Len(content) = Len(mapping.get)
               /\ yielded # <<>>
               /\ LET last == DictAsFun(yielded[Len(yielded)])
                  IN /\ mapping.get[i].name \in DOMAIN last
                     /\ last[mapping.get[i].name] = <<>>

\* C9: the output file is written only after the walk has ended cleanly;
\* on every run in which the walk raises, main takes the screenshot, ends
\* by raising, and the output file is never written.
C9_OutputOnlyAfterCleanWalk ==
    /\ written => (wstate = "Done" /\ status = "ok" /\ output = result)
    /\ wstate = "Raised" => ~written
    /\ (wstate = "Raised" /\ pc = "done")
          => /\ status = "raised"
             /\ LastEv(trace).op = "screenshot"

\* C9 witness: the walk raised after results had been accumulated, main has
\* ended, and nothing was written
C9_Witness ==
    /\ wstate = "Raised"
    /\ pc = "done"
    /\ Len(result) >= 2
    /\ ~written
    /\ status = "raised"

\* C10: every click on the next-page control is immediately preceded by
\* exactly one suspension of a duration d with min_wait <= d <= max_wait
\* (for all min_wait <= max_wait, bounds with more than two decimals
\* included), and no click is issued without such a suspension.
C10_ClickAfterBoundedSleep ==
    min_wait_time <= max_wait_time
        => \A i \in Positions("click") :
              /\ i > 1
              /\ trace[i - 1].op = "sleep"
              /\ min_wait_time <= trace[i - 1].arg
              /\ trace[i - 1].arg <= max_wait_time
              /\ i > 2 => trace[i - 2].op # "sleep"

\* the bounds a descriptor 'list[n:m]' stands for when n or m is left out
StartOrDefault(b) == IF b = <<>> THEN 0 ELSE b[1]
EndOrDefault(b) == IF b = <<>> THEN -1 ELSE b[1]

\* one bound at least is left out, the other is a single digit
MissingBound(b1, b2) ==
    /\ b1 = <<>> \/ b2 = <<>>
    /\ b1 # <<>> => (0 <= b1[1] /\ b1[1] <= 9)
    /\ b2 # <<>> => (0 <= b2[1] /\ b2[1] <= 9)

\* what C11 asks of the call that has returned
BoundFallback ==
    /\ \A b1, b2 \in OptBounds :
          (MissingBound(b1, b2) /\ data_type = FmtSlice(b1, b2))
              => coerced = RetList(PySlice(Split(element),
                                           StartOrDefault(b1), EndOrDefault(b2)))
    /\ data_type = UnparsableStart
          => coerced = RetList(PySlice(Split(element), 0, 2))
    /\ data_type = UnparsableEnd
          => coerced = RetList(PySlice(Split(element), 1, -1))

\* C11: for every descriptor containing '[', a slice bound that is missing
\* or cannot be parsed as an integer falls back to the default (start = 0,
\* end = -1), and validate_element never raises because of it.
C11_BoundFallback == Called => BoundFallback

\* The part of C11 the code keeps: Parser.validate_element guards both bounds.
ParserBoundFallback == cpc = "parser" => BoundFallback

\* navigation: at most two goto, the second only after the first failed, the
\* browser closed and a new one launched without proxy; after two failures
\* main has raised and the walk was never started
NavigationRetriedOnce ==
    /\ Cardinality(Positions("goto")) <= 2
    /\ Positions("goto") \subseteq {2, 5}
    /\ Positions("launch") \subseteq {1, 4}
    /\ (Len(trace) >= 2 /\ trace[2] = Ev("goto", 0))
          => /\ trace[3] = Ev("close", 0)
             /\ pc \in {"scrape", "done"}
                   => (trace[4] = Ev("launch", 0) /\ trace[5].op = "goto")
    /\ 5 \in Positions("goto") => trace[2] = Ev("goto", 0)
    /\ (5 \in Positions("goto") /\ trace[5].arg = 0)
          => /\ Len(trace) = 5
             /\ pc = "done"
             /\ status = "raised"
             /\ wstate = "NotStarted"
             /\ yielded = <<>>
    /\ wstate # "NotStarted" => \E i \in Positions("goto") : trace[i].arg = 1

\* a failed operation of the walk is the last one: only the screenshot follows
FailureIsFinal ==
    /\ \A i \in 1..Len(trace) :
          (trace[i] = Ev("click", 0) \/ trace[i] = Ev("is_visible", 0))
              => /\ wstate = "Raised"
                 /\ \A j \in (i + 1)..Len(trace) : trace[j].op = "screenshot"
    /\ walk_error # NoError <=> wstate = "Raised"
    /\ Cardinality(Positions("screenshot")) <= 1

\* C12: retry is limited to the initial navigation: when the first goto
\* fails the browser is closed and navigation is attempted exactly once
\* more, without proxy; a second failure propagates and the walk never
\* starts.  Once the walk has started nothing is retried: after its first
\* failure the walk stays raised, yields nothing more, and the only page
\* operation left is the screenshot.
C12_RetryOnlyNavigation ==
    /\ [](NavigationRetriedOnce /\ FailureIsFinal)
    /\ [][wstate = "Raised"
             => /\ wstate' = "Raised"
                /\ walk_error' = walk_error
                /\ yielded' = yielded
                /\ result' = result
                /\ trace' # trace => (/\ Len(trace') = Len(trace) + 1
                                      /\ LastEv(trace').op = "screenshot")]_vars

\* C12 witness: with a proxy configured both navigations failed, the second
\* without proxy, and main has raised without starting the walk
C12_Witness ==
    /\ proxy
    /\ Len(trace) = 5
    /\ trace[1] = Ev("launch", 1)
    /\ trace[2] = Ev("goto", 0)
    /\ trace[3] = Ev("close", 0)
    /\ trace[4] = Ev("launch", 0)
    /\ trace[5] = Ev("goto", 0)
    /\ pc = "done"
    /\ status = "raised"
    /\ wstate = "NotStarted"

\* the outcome of the last loop check of the next-page control
LastCheck == trace[CHOOSE i \in Positions("check_visible") :
                       \A j \in Positions("check_visible") : j <= i]

\* the walk stops in Done only on a control that is not visible, and every
\* loop check follows a yield of its own
NoSilentStop ==
    /\ wstate = "Done"
          => (Positions("check_visible") # {} /\ LastCheck.arg = 0)
    /\ Cardinality(Positions("check_visible")) <= Len(yielded)

\* C13: against a page driver whose next-page control is visible at only
\* finitely many checks the walk terminates; it ends in Done (control not
\* visible at the loop check) or raised from Advancing, never loops without
\* yielding and never stops silently while the control is visible.  As an
\* invariant: a walk (with a well-formed mapping) that is not running any
\* more is in Done or was raised by delayed_click.
C13_EndsDoneOrRaisedAdvancing ==
    /\ (WellFormed /\ wstate = "Raised")
          => walk_error.at \in {"delayed_click", "click"}
    /\ NoSilentStop

\* The parts of C13 the code keeps: every run ends, and the walk has then
\* ended in Done or raised, or was never started (navigation failed twice).
WalkTerminates ==
    <>(pc = "done" /\ (wstate \in {"Done", "Raised", "NotStarted"}))
=============================================================================
